---- MODULE Spec2Model ----
(***************************************************************************)
(* Model of the backtester core: the limit order book (order_book.cpp),    *)
(* the order arena (memory_pool.hpp) and the tick engine (tick_engine.cpp).*)
(*                                                                         *)
(* The specifications share the module:                                    *)
(*   SpecBook    one OrderBook driven through add_order with caller-owned  *)
(*               Order objects, as test_order_book.cpp drives it;          *)
(*   SpecCancel  the same book, driven through add_order and cancel_order; *)
(*   SpecStamp   the same book, fed orders with caller-chosen timestamps;  *)
(*   SpecPool    one MemoryPool driven through allocate() and reset();     *)
(*   SpecEngine  one TickEngine with its books, arena and strategies;      *)
(*   SpecEngineCalls  one TickEngine without strategies, with calls made   *)
(*               directly on its books (add_order, set_trade_callback);    *)
(*   SpecTwin    two TickEngines given the same strategies and ticks;      *)
(*   SpecBacktest  one TickEngine driven through add_strategy and          *)
(*               run_backtest;                                             *)
(*   SpecMarketMaker  one TickEngine with one MarketMakerStrategy, fed     *)
(*               ticks of one symbol, as test_strategies.cpp does.         *)
(*                                                                         *)
(* The result of a nested operator call is handed on as an operator        *)
(* parameter (Matched, RestUnfilled, AfterAddOrder, ...) and not named in  *)
(* a LET that is read several times: TLC's coverage statistics expand a    *)
(* LET definition at every use, which multiplies along the call chain.     *)
(***************************************************************************)
EXTENDS Integers, Sequences, FiniteSets, TLC

\* ------------------------------------------------------------------ bounds
MaxPrice == 2          \* LIMIT prices are 1..MaxPrice
MaxQty == 2            \* order quantities are 1..MaxQty
MaxOrders == 3         \* add_order calls on the stand-alone book
BlockSize == 2         \* objects per block (the BlockSize template parameter)
MaxPoolCalls == 6      \* allocate() and reset() calls on the stand-alone pool
MaxStrategies == 2     \* strategies registered with the engine
MaxTicks == 2          \* ticks the engine processes
MaxSubmit == 1         \* submit_order calls of one on_tick
MaxEngineOrders == 3   \* submit_order calls on the engine
MaxCancelAdds == 2     \* add_order calls on the book that is also cancelled on
MaxCancels == 1        \* cancel_order calls on that book
MaxBookCalls == 1      \* add_order calls made directly on a book of the engine
MaxStampAdds == 2      \* add_order calls on the book fed caller-chosen timestamps
MaxTime == 2           \* caller-chosen order timestamps are 1..MaxTime
MaxMMTicks == 20       \* ticks the engine with the market maker processes
MMQuoteSize == 1       \* quote_size the MarketMakerStrategy is constructed with
MMMidPrice == 2        \* the price of every tick fed to the market maker

QuoteInterval == 10    \* MarketMakerStrategy::on_tick quotes when
                       \* ++tick_count_ % 10 is 0

Symbols == {"A", "B"}  \* tick symbols
Latencies == {1, 2}    \* nanoseconds the clock measures for one process_tick

\* ------------------------------------------------------------ domain types
Sides == {"BUY", "SELL"}
OrderTypes == {"MARKET", "LIMIT"}
OrderStatuses == {"PENDING", "PARTIAL", "FILLED", "CANCELLED"}

\* Order::Order(id, price, qty, ts, side, type, user)
NewOrder(id, price, qty, ts, side, type, user) ==
    [id |-> id, price |-> price, quantity |-> qty, filled |-> 0,
     initial_quantity |-> qty, timestamp |-> ts, side |-> side,
     type |-> type, status |-> "PENDING", user_id |-> user]

\* Order::remaining()
remaining(o) == o.quantity - o.filled

\* std::min / std::max on two integers
Min2(a, b) == IF a < b THEN a ELSE b
Max2(a, b) == IF a > b THEN a ELSE b

SetMin(S) == CHOOSE x \in S : \A y \in S : x <= y
SetMax(S) == CHOOSE x \in S : \A y \in S : x >= y

\* --------------------------------------------------------------- OrderBook
\* A book is [bids, asks, total_trades, trade_callback]; bids and asks are
\* the std::maps, as functions from the set of keys present to PriceLevel
\* records [price, orders, total_quantity]; orders is the std::list<Order*>.
\* Order* values are keys of a memory function mem : pointer -> Order.

\* OrderBook::OrderBook(symbol)
EmptyBook ==
    [bids |-> <<>>, asks |-> <<>>, total_trades |-> 0, trade_callback |-> "none"]

\* PriceLevel as value-initialised by std::map::operator[]
DefaultLevel == [price |-> 0, orders |-> <<>>, total_quantity |-> 0]

\* std::map<Price, PriceLevel, std::greater<Price>>: begin() is the largest
\* key, rbegin() the smallest
BidsBegin(bids) == SetMax(DOMAIN bids)
BidsRBegin(bids) == SetMin(DOMAIN bids)
\* std::map<Price, PriceLevel>: begin() is the smallest key
AsksBegin(asks) == SetMin(DOMAIN asks)

\* m.erase(it)
MapErase(m, k) == [x \in (DOMAIN m) \ {k} |-> m[x]]
\* m[k] = v, inserting the key when absent
MapPut(m, k, v) == [x \in (DOMAIN m) \cup {k} |-> IF x = k THEN v ELSE m[x]]
\* m[k], value-initialising the level when absent
MapAt(m, k) == IF k \in DOMAIN m THEN m[k] ELSE DefaultLevel

\* OrderBook::best_bid / best_ask
best_bid(b) == IF DOMAIN b.bids = {} THEN 0 ELSE BidsRBegin(b.bids)
best_ask(b) == IF DOMAIN b.asks = {} THEN 0 ELSE AsksBegin(b.asks)

RECURSIVE SumLevels(_)
SumLevels(m) ==
    IF DOMAIN m = {} THEN 0
    ELSE LET k == CHOOSE x \in DOMAIN m : TRUE
         IN m[k].total_quantity + SumLevels(MapErase(m, k))

\* OrderBook::bid_volume / ask_volume
bid_volume(b) == SumLevels(b.bids)
ask_volume(b) == SumLevels(b.asks)

\* OrderBook::set_trade_callback
set_trade_callback(b, cb) == [b EXCEPT !.trade_callback = cb]

\* OrderBook::total_trades
total_trades(b) == b.total_trades

\* mutant: the timestamp of the buy order, without the std::max
execute_trade_BuyTime(buy_order, sell_order, price, qty) ==
    [buy_order_id |-> buy_order.id, sell_order_id |-> sell_order.id,
     price |-> price, quantity |-> qty,
     timestamp |-> buy_order.timestamp]

\* OrderBook::execute_trade: the Trade record it builds
execute_trade(buy_order, sell_order, price, qty) ==
    [buy_order_id |-> buy_order.id, sell_order_id |-> sell_order.id,
     price |-> price, quantity |-> qty,
     timestamp |-> Max2(buy_order.timestamp, sell_order.timestamp)]

\* The matching state threaded through match_order is [opp, mem, trades,
\* total_trades]: the opposing map, the order memory, the trades emitted by
\* this call so far and the book's trade counter.

\* mutant: back() in place of front()
HeadOrder_Back(level) == level.orders[Len(level.orders)]

\* Order* contra_order = level.orders.front()
HeadOrder(level) == Head(level.orders)

\* mutant: the incoming order's remainder, without the std::min
TradeQty_NoMin(order, contra) == order.quantity - order.filled

\* mutant: one unit per pass of the loop
TradeQty_Unit(order, contra) ==
    Min2(Min2(1, order.quantity - order.filled), contra.quantity - contra.filled)

\* Quantity trade_qty = std::min(remaining of incoming, remaining of contra)
TradeQty(order, contra) ==
    Min2(order.quantity - order.filled, contra.quantity - contra.filled)

\* mutant: the incoming order's price
TradePrice_Taker(order, level) == order.price

\* price passed to execute_trade: level.price
TradePrice(order, level) == level.price

\* mutant: total_quantity is not reduced by the fill
LevelAfterFill_NoDecrement(level, trade_qty, done) ==
    [level EXCEPT !.orders = IF done THEN Tail(@) ELSE @]

\* level.total_quantity -= trade_qty, and pop_front() when the contra order
\* is complete
LevelAfterFill(level, trade_qty, done) ==
    [level EXCEPT !.total_quantity = @ - trade_qty,
                  !.orders = IF done THEN Tail(@) ELSE @]

\* mutant: the fill is booked on the incoming order only
AddFilled_OnlyIncoming(mem, p, c, trade_qty) ==
    [mem EXCEPT ![p].filled = @ + trade_qty]

\* order->filled += trade_qty; contra_order->filled += trade_qty, in that
\* order on the memory (the two pointers may be the same object)
AddFilled(mem, p, c, trade_qty) ==
    [[mem EXCEPT ![p].filled = @ + trade_qty] EXCEPT ![c].filled = @ + trade_qty]

\* mutant: a contra order that is not complete keeps its status
ContraStatus_NoPartial(contra) ==
    IF contra.filled >= contra.quantity THEN "FILLED" ELSE contra.status

\* contra_order->status after the fill
ContraStatus(contra) ==
    IF contra.filled >= contra.quantity THEN "FILLED" ELSE "PARTIAL"

\* one pass through the body of the inner while loop, against contra order c
\* for trade_qty units
FillAgainst(ms, p, k, c, trade_qty) ==
    LET level == ms.opp[k]
        order == ms.mem[p]
        contra == ms.mem[c]
        mem2 == AddFilled(ms.mem, p, c, trade_qty)
    IN [opp |-> MapPut(ms.opp, k,
                       LevelAfterFill(level, trade_qty, mem2[c].filled >= mem2[c].quantity)),
        mem |-> [mem2 EXCEPT ![c].status = ContraStatus(mem2[c])],
        trades |-> Append(ms.trades,
                          IF order.side = "BUY"
                          THEN execute_trade(order, contra, TradePrice(order, level), trade_qty)
                          ELSE execute_trade(contra, order, TradePrice(order, level), trade_qty)),
        total_trades |-> ms.total_trades + 1]

\* the body of the inner while loop: pick the contra order and the quantity
FillHead(ms, p, k, c) == FillAgainst(ms, p, k, c, TradeQty(ms.mem[p], ms.mem[c]))

\* inner while loop of match_order: fill against the head of the level at
\* key k until the level is empty or the incoming order p is complete
RECURSIVE MatchLevel(_, _, _)
MatchLevel(ms, p, k) ==
    IF ms.opp[k].orders # <<>> /\ ms.mem[p].filled < ms.mem[p].quantity
    THEN MatchLevel(FillHead(ms, p, k, HeadOrder(ms.opp[k])), p, k)
    ELSE ms

\* mutant: bids_.rbegin() for a SELL
BestOpposing_RBegin(side, opp) == IF side = "BUY" THEN AsksBegin(opp) ELSE BidsRBegin(opp)

\* the opposing level an incoming order looks at first: asks_.begin() for a
\* BUY, bids_.begin() for a SELL
BestOpposing(side, opp) == IF side = "BUY" THEN AsksBegin(opp) ELSE BidsBegin(opp)

\* mutant: a LIMIT order also stops at a level at its own price
PriceStops_AtEqual(order, level) ==
    /\ order.type = "LIMIT"
    /\ IF order.side = "BUY" THEN order.price <= level.price
                             ELSE order.price >= level.price

\* mutant: the price check is missing
PriceStops_Never(order, level) == FALSE

\* "Check price compatibility": TRUE when a LIMIT order must stop matching
PriceStops(order, level) ==
    /\ order.type = "LIMIT"
    /\ IF order.side = "BUY" THEN order.price < level.price
                             ELSE order.price > level.price

\* if (level.orders.empty()) erase(it)
EraseIfEmpty(ms, k) ==
    IF ms.opp[k].orders = <<>> THEN [ms EXCEPT !.opp = MapErase(@, k)] ELSE ms

\* outer while loop of match_order; MatchAt is its body for the level at k
RECURSIVE MatchLoop(_, _)
RECURSIVE MatchAt(_, _, _)
MatchAt(ms, p, k) ==
    IF PriceStops(ms.mem[p], ms.opp[k])
    THEN ms
    ELSE MatchLoop(EraseIfEmpty(MatchLevel(ms, p, k), k), p)

MatchLoop(ms, p) ==
    IF ms.mem[p].filled < ms.mem[p].quantity /\ DOMAIN ms.opp # {}
    THEN MatchAt(ms, p, BestOpposing(ms.mem[p].side, ms.opp))
    ELSE ms

\* mutant: the PARTIAL branch is missing
FinalStatus_NoPartial(order) ==
    IF order.filled >= order.quantity THEN "FILLED" ELSE "PENDING"

\* final status assignment of match_order
FinalStatus(order) ==
    IF order.filled >= order.quantity THEN "FILLED"
    ELSE IF order.filled > 0 THEN "PARTIAL" ELSE "PENDING"

\* the book, memory and trades match_order leaves, from the matching state
\* its loops end in
Matched(b, p, ms) ==
    [book |-> IF ms.mem[p].side = "BUY"
              THEN [b EXCEPT !.asks = ms.opp, !.total_trades = ms.total_trades]
              ELSE [b EXCEPT !.bids = ms.opp, !.total_trades = ms.total_trades],
     mem |-> [ms.mem EXCEPT ![p].status = FinalStatus(ms.mem[p])],
     trades |-> ms.trades]

\* OrderBook::match_order; the result is [book, mem, trades]
match_order(b, mem, p) ==
    Matched(b, p, MatchLoop([opp |-> IF mem[p].side = "BUY" THEN b.asks ELSE b.bids,
                             mem |-> mem, trades |-> <<>>,
                             total_trades |-> b.total_trades], p))

\* if (order->status != FILLED) order->status = CANCELLED
CancelUnfilled(r, p) ==
    IF r.mem[p].status # "FILLED" THEN [r EXCEPT !.mem[p].status = "CANCELLED"] ELSE r

\* OrderBook::process_market_order
process_market_order(b, mem, p) == CancelUnfilled(match_order(b, mem, p), p)

\* mutant: total_quantity is assigned, not added to
RestOrder_Assign(m, order, p) ==
    MapPut(m, order.price,
           [price |-> order.price,
            orders |-> Append(MapAt(m, order.price).orders, p),
            total_quantity |-> order.quantity - order.filled])

\* push_back on the level at the order's price, created when absent
RestOrder(m, order, p) ==
    MapPut(m, order.price,
           [price |-> order.price,
            orders |-> Append(MapAt(m, order.price).orders, p),
            total_quantity |-> MapAt(m, order.price).total_quantity
                                 + (order.quantity - order.filled)])

\* mutant: the status check is missing, the order is always queued
RestUnfilled_Always(r, p) ==
    IF r.mem[p].side = "BUY"
    THEN [r EXCEPT !.book.bids = RestOrder(@, r.mem[p], p)]
    ELSE [r EXCEPT !.book.asks = RestOrder(@, r.mem[p], p)]

\* mutant: a BUY is queued on the asks and a SELL on the bids
RestUnfilled_Swapped(r, p) ==
    IF r.mem[p].status # "FILLED"
    THEN IF r.mem[p].side = "BUY"
         THEN [r EXCEPT !.book.asks = RestOrder(@, r.mem[p], p)]
         ELSE [r EXCEPT !.book.bids = RestOrder(@, r.mem[p], p)]
    ELSE r

\* "Add remaining quantity to book"
RestUnfilled(r, p) ==
    IF r.mem[p].status # "FILLED"
    THEN IF r.mem[p].side = "BUY"
         THEN [r EXCEPT !.book.bids = RestOrder(@, r.mem[p], p)]
         ELSE [r EXCEPT !.book.asks = RestOrder(@, r.mem[p], p)]
    ELSE r

\* mutant: the MARKET branch is missing, a MARKET order is handled as a LIMIT
add_order_RestMarket(b, mem, p) == RestUnfilled(match_order(b, mem, p), p)

\* OrderBook::add_order; the result is [book, mem, trades]
add_order(b, mem, p) ==
    IF mem[p].type = "MARKET"
    THEN process_market_order(b, mem, p)
    ELSE RestUnfilled(match_order(b, mem, p), p)

\* mutant: the status of the order with that id is set without a look at
\* whether the order still rests (ids are the positions in mem)
cancel_order_Unchecked(b, mem, order_id) ==
    [book |-> b,
     mem |-> IF order_id \in DOMAIN mem
             THEN [mem EXCEPT ![order_id].status = "CANCELLED"] ELSE mem,
     trades |-> <<>>]

\* OrderBook::cancel_order: the body is a comment; the result is
\* [book, mem, trades]
cancel_order(b, mem, order_id) == [book |-> b, mem |-> mem, trades |-> <<>>]

\* -------------------------------------------------------------- MemoryPool
\* A pool is [blocks_, current_block_, current_index_]; blocks_ is the number
\* of blocks in the vector (block b is the b-th aligned_alloc result, b from
\* 0), and a slot is the pair <<block, index>>.  A failing aligned_alloc
\* throws and ends the run; it is not modelled.

\* MemoryPool::allocate_block
allocate_block(pool) ==
    LET size == IF pool.current_block_ >= pool.blocks_
                THEN pool.blocks_ + 1
                ELSE pool.blocks_
    IN [blocks_ |-> size, current_block_ |-> size - 1, current_index_ |-> 0]

\* MemoryPool::MemoryPool
NewPool == allocate_block([blocks_ |-> 0, current_block_ |-> 0, current_index_ |-> 0])

\* return &blocks_[current_block_].ptr[current_index_++]
TakeSlot(pool) ==
    [pool |-> [pool EXCEPT !.current_index_ = @ + 1],
     slot |-> <<pool.current_block_, pool.current_index_>>]

\* MemoryPool::allocate; the result is [pool, slot]
allocate(pool) ==
    TakeSlot(IF pool.current_index_ >= BlockSize THEN allocate_block(pool) ELSE pool)

\* MemoryPool::reset
reset(pool) == [pool EXCEPT !.current_block_ = 0, !.current_index_ = 0]

\* MemoryPool::memory_usage, in objects (sizeof(T) is a constant factor)
memory_usage(pool) == pool.blocks_ * BlockSize

\* MemoryPool::allocated_count
allocated_count(pool) == pool.current_block_ * BlockSize + pool.current_index_

\* -------------------------------------------------------------- TickEngine
\* An engine is [order_books_, book_iter, strategies_, order_pool_, mem,
\* next_order_id_, current_time_, stats_].  order_books_ maps the symbols
\* that have a book to the book; book_iter is the iteration order of that
\* std::unordered_map (unspecified by the language: any order of the keys,
\* fixed between insertions); strategies_ is the number of registered
\* strategies (strategy i is the i-th registered); mem is the arena's
\* storage, slot -> Order.  A log is [submits, events, trades]: the
\* submit_order calls; the calls between the engine and the strategies in
\* order (on_tick and on_trade callbacks, each on_trade with the value of
\* stats_.trades_executed the strategy finds, and the submit_order calls
\* with the id assigned and the side); and the trades passed to on_trade.

\* TickEngine::TickEngine, with the member initialisers of tick_engine.hpp
NewEngine ==
    [order_books_ |-> <<>>, book_iter |-> <<>>, strategies_ |-> 0,
     order_pool_ |-> NewPool, mem |-> <<>>,
     next_order_id_ |-> 1, current_time_ |-> 0,
     stats_ |-> [ticks_processed |-> 0, orders_submitted |-> 0,
                 trades_executed |-> 0, total_latency_ns |-> 0]]

EmptyLog == [submits |-> <<>>, events |-> <<>>, trades |-> <<>>]

\* the sequences that list every element of S once
Orderings(S) ==
    {q \in [1..Cardinality(S) -> S] : \A i, j \in 1..Cardinality(S) : q[i] = q[j] => i = j}

\* TickEngine::get_order_book: the book, or "null"
get_order_book(e, symbol) ==
    IF symbol \in DOMAIN e.order_books_ THEN e.order_books_[symbol] ELSE "null"

\* the fan-out loop of TickEngine::on_trade over strategies j..strategies_
\* with stats_.trades_executed = executed
RECURSIVE NotifyTrade(_, _, _, _, _)
NotifyTrade(events, n, trade, executed, j) ==
    IF j > n THEN events
    ELSE NotifyTrade(Append(events, [kind |-> "on_trade", strategy |-> j, trade |-> trade,
                                     executed |-> executed]),
                     n, trade, executed, j + 1)

\* mutant: the counter is not incremented
on_trade_NoCount(eg, trade) ==
    [e |-> eg.e,
     g |-> [eg.g EXCEPT !.events = NotifyTrade(@, eg.e.strategies_, trade,
                                               eg.e.stats_.trades_executed, 1),
                        !.trades = Append(@, trade)]]

\* mutant: the counter is incremented after the fan-out
on_trade_CountAfter(eg, trade) ==
    [e |-> [eg.e EXCEPT !.stats_.trades_executed = @ + 1],
     g |-> [eg.g EXCEPT !.events = NotifyTrade(@, eg.e.strategies_, trade,
                                               eg.e.stats_.trades_executed, 1),
                        !.trades = Append(@, trade)]]

\* TickEngine::on_trade
on_trade(eg, trade) ==
    [e |-> [eg.e EXCEPT !.stats_.trades_executed = @ + 1],
     g |-> [eg.g EXCEPT !.events = NotifyTrade(@, eg.e.strategies_, trade,
                                               eg.e.stats_.trades_executed + 1, 1),
                        !.trades = Append(@, trade)]]

\* the trade callback of a book, invoked by execute_trade once per trade:
\* the lambda process_tick installs forwards to on_trade
RECURSIVE DeliverTrades(_, _, _)
DeliverTrades(eg, callback, ts) ==
    IF ts = <<>> THEN eg
    ELSE DeliverTrades(IF callback = "engine" THEN on_trade(eg, Head(ts)) ELSE eg,
                       callback, Tail(ts))

\* the book submit_order hands the order to: order_books_.begin()
TargetBook(e, ctx) == e.book_iter[1]

\* the entry of the log for one submit_order call
SubmitEntry(order, slot, ctx, sym) ==
    [id |-> order.id, slot |-> slot, during |-> ctx, book |-> sym]

\* submit_order from the return of add_order on: the book and the arena as
\* add_order left them, the trade callbacks, ++stats_.orders_submitted
AfterAddOrder(eg, order, slot, ctx, sym, r) ==
    [DeliverTrades([e |-> [eg.e EXCEPT !.order_books_[sym] = r.book, !.mem = r.mem],
                    g |-> [eg.g EXCEPT !.submits = Append(@, SubmitEntry(order, slot, ctx, sym))]],
                   eg.e.order_books_[sym].trade_callback, r.trades)
       EXCEPT !.e.stats_.orders_submitted = @ + 1]

\* order_books_.begin()->second->add_order(order)
AddToBook(eg, order, slot, ctx, sym) ==
    AfterAddOrder(eg, order, slot, ctx, sym,
                  add_order(eg.e.order_books_[sym], eg.e.mem, slot))

\* if (!order_books_.empty()) { ... }
Dispatch(eg, order, slot, ctx) ==
    IF DOMAIN eg.e.order_books_ # {}
    THEN AddToBook(eg, order, slot, ctx, TargetBook(eg.e, ctx))
    ELSE [eg EXCEPT !.g.submits = Append(@, SubmitEntry(order, slot, ctx, "none"))]

\* *order = order_template; order->id = next_order_id_++;
\* order->timestamp = current_time_, on the slot allocate() returned
StoreOrder(eg, order, a, ctx) ==
    Dispatch([eg EXCEPT !.e.order_pool_ = a.pool,
                        !.e.mem = MapPut(@, a.slot, order),
                        !.e.next_order_id_ = @ + 1,
                        !.g.events = Append(@, [kind |-> "submit", id |-> order.id,
                                                side |-> order.side])],
             order, a.slot, ctx)

\* mutant: the id of the template is kept
submit_order_KeepId(eg, order_template, ctx) ==
    StoreOrder(eg, [order_template EXCEPT !.timestamp = eg.e.current_time_],
               allocate(eg.e.order_pool_), ctx)

\* TickEngine::submit_order.  ctx is the symbol of the tick being processed,
\* or "none" for a call from outside process_tick; it only feeds the log.
submit_order(eg, order_template, ctx) ==
    StoreOrder(eg,
               [order_template EXCEPT !.id = eg.e.next_order_id_,
                                      !.timestamp = eg.e.current_time_],
               allocate(eg.e.order_pool_), ctx)

\* the submit_order calls one on_tick makes, in order
RECURSIVE SubmitAll(_, _, _)
SubmitAll(eg, templates, ctx) ==
    IF templates = <<>> THEN eg
    ELSE SubmitAll(submit_order(eg, Head(templates), ctx), Tail(templates), ctx)

\* mutant: the loop runs over strategies_ from the back
OnTick_Reversed(eg, tick, i) ==
    [eg EXCEPT !.g.events = Append(@, [kind |-> "on_tick",
                                       strategy |-> eg.e.strategies_ + 1 - i, tick |-> tick])]

\* strategy->on_tick(tick, *this) of the i-th element of strategies_, up to
\* the strategy's first submit_order
OnTick(eg, tick, i) ==
    [eg EXCEPT !.g.events = Append(@, [kind |-> "on_tick", strategy |-> i, tick |-> tick])]

\* "Notify strategies": on_tick of strategies i..strategies_; plan[i] is the
\* sequence of orders strategy i submits from this on_tick
RECURSIVE NotifyStrategies(_, _, _, _)
NotifyStrategies(eg, tick, plan, i) ==
    IF i > eg.e.strategies_ THEN eg
    ELSE NotifyStrategies(SubmitAll(OnTick(eg, tick, i), plan[i], tick.symbol),
                          tick, plan, i + 1)

\* "Get or create order book": iter is the iteration order of the map after
\* an insertion
EnsureBook(e, symbol, iter) ==
    IF symbol \in DOMAIN e.order_books_ THEN e
    ELSE [e EXCEPT !.order_books_ = MapPut(@, symbol, [EmptyBook EXCEPT !.trade_callback = "engine"]),
                   !.book_iter = iter]

\* mutant: current_time_ is taken from the clock, not from the tick
process_tick_ClockTime(eg, tick, iter, plan, latency) ==
    [NotifyStrategies([e |-> EnsureBook([eg.e EXCEPT !.current_time_ = latency],
                                        tick.symbol, iter),
                       g |-> eg.g], tick, plan, 1)
       EXCEPT !.e.stats_.ticks_processed = @ + 1,
              !.e.stats_.total_latency_ns = @ + latency]

\* TickEngine::process_tick; latency is end - start of the clock
process_tick(eg, tick, iter, plan, latency) ==
    [NotifyStrategies([e |-> EnsureBook([eg.e EXCEPT !.current_time_ = tick.timestamp],
                                        tick.symbol, iter),
                       g |-> eg.g], tick, plan, 1)
       EXCEPT !.e.stats_.ticks_processed = @ + 1,
              !.e.stats_.total_latency_ns = @ + latency]

\* TickEngine::add_strategy
add_strategy(e) == [e EXCEPT !.strategies_ = @ + 1]

\* for (const auto& tick : ticks) process_tick(tick), from the k-th tick on.
\* env holds what each process_tick draws from outside the engine: the
\* iteration order of the map after an insertion, the orders each strategy
\* submits, the clock
RECURSIVE ProcessTicks(_, _, _, _)
ProcessTicks(eg, ticks, env, k) ==
    IF k > Len(ticks) THEN eg
    ELSE ProcessTicks(process_tick(eg, ticks[k], env.iter[k], env.plan[k], env.latency[k]),
                      ticks, env, k + 1)

\* mutant: the loop starts at the second tick
run_backtest_SkipFirst(eg, ticks, env) == ProcessTicks(eg, ticks, env, 2)

\* TickEngine::run_backtest
run_backtest(eg, ticks, env) == ProcessTicks(eg, ticks, env, 1)

\* ------------------------------------------------- MarketMakerStrategy
\* MarketMakerStrategy::MarketMakerStrategy
MarketMakerStrategy(spread, quote_size, max_position) ==
    [spread_ |-> spread, quote_size_ |-> quote_size, max_position_ |-> max_position,
     position_ |-> 0, tick_count_ |-> 0, trades_count_ |-> 0, total_pnl_ |-> 0]

\* Order bid(0, mid - spread_/2, quote_size_, tick.timestamp, BUY, LIMIT, 2)
Bid(m, tick) ==
    NewOrder(0, tick.price - (m.spread_ \div 2), m.quote_size_, tick.timestamp,
             "BUY", "LIMIT", 2)

\* Order ask(0, mid + spread_/2, quote_size_, tick.timestamp, SELL, LIMIT, 2)
Ask(m, tick) ==
    NewOrder(0, tick.price + (m.spread_ \div 2), m.quote_size_, tick.timestamp,
             "SELL", "LIMIT", 2)

\* the submit_order calls of one quote: can_buy and can_sell are computed
\* before the first submit_order
Quotes(m, tick) ==
    (IF m.position_ < m.max_position_ THEN <<Bid(m, tick)>> ELSE <<>>)
    \o (IF m.position_ > 0 - m.max_position_ THEN <<Ask(m, tick)>> ELSE <<>>)

\* mutant: tick_count_++ in place of ++tick_count_
MarketMaker_on_tick_PostIncrement(m, tick) ==
    [m |-> [m EXCEPT !.tick_count_ = @ + 1],
     orders |-> IF m.tick_count_ % QuoteInterval # 0 THEN <<>> ELSE Quotes(m, tick)]

\* MarketMakerStrategy::on_tick: the strategy after the call and the orders
\* it submits, in order
MarketMaker_on_tick(m, tick) ==
    [m |-> [m EXCEPT !.tick_count_ = @ + 1],
     orders |-> IF (m.tick_count_ + 1) % QuoteInterval # 0 THEN <<>> ELSE Quotes(m, tick)]

\* MarketMakerStrategy::on_trade
MarketMaker_on_trade(m, trade) ==
    [m EXCEPT !.trades_count_ = @ + 1, !.total_pnl_ = @ + (m.spread_ \div 2)]

\* on_trade for each of the trades ts, in order
RECURSIVE MarketMaker_on_trades(_, _)
MarketMaker_on_trades(m, ts) ==
    IF ts = <<>> THEN m
    ELSE MarketMaker_on_trades(MarketMaker_on_trade(m, Head(ts)), Tail(ts))

\* book->add_order(&o) on a book obtained from get_order_book, from the
\* return of add_order on: the book and the memory as add_order left them
\* and the trade callbacks
AfterBookCall(eg, sym, r) ==
    DeliverTrades([e |-> [eg.e EXCEPT !.order_books_[sym] = r.book, !.mem = r.mem],
                   g |-> eg.g],
                  eg.e.order_books_[sym].trade_callback, r.trades)

\* Order o(...); engine.get_order_book(sym)->add_order(&o).  The caller's
\* object lives outside the arena, at the address ptr
book_add_order(eg, sym, order, ptr) ==
    AfterBookCall(eg, sym,
                  add_order(get_order_book(eg.e, sym), MapPut(eg.e.mem, ptr, order), ptr))

\* ------------------------------------------------------------------ state
VARIABLES
    book,        \* stand-alone book: the OrderBook under test
    orders,      \* stand-alone book: the caller's Order objects in creation
                 \* order; the k-th object is the one add_order received k-th
    trades,      \* stand-alone book: every Trade built by execute_trade, in
                 \* emission order
    cancel_ids,  \* stand-alone book: the ids cancel_order was called with,
                 \* in call order
    pool,        \* stand-alone pool: the MemoryPool under test
    pool_mem,    \* stand-alone pool: what the caller wrote into each slot
    handed,      \* stand-alone pool: the slots allocate() returned since
                 \* construction or the last reset(), in order
    pool_calls,  \* stand-alone pool: allocate() and reset() calls so far
    engine,      \* the TickEngine
    log,         \* what the engine did: submit_order calls, strategy
                 \* callbacks, trades passed to on_trade
    engine2,     \* a second TickEngine of the same program, fed the same
                 \* strategies and ticks as the first
    log2,        \* what the second engine did
    backtest,    \* the vectors of ticks run_backtest was called with, in
                 \* call order
    mm           \* the MarketMakerStrategy objects registered with the
                 \* engine, in registration order

bookVars == <<book, orders, trades, cancel_ids>>
poolVars == <<pool, pool_mem, handed, pool_calls>>
engineVars == <<engine, log>>
twinVars == <<engine2, log2>>
runVars == <<backtest, mm>>
vars == <<book, orders, trades, cancel_ids, pool, pool_mem, handed, pool_calls, engine, log,
         engine2, log2, backtest, mm>>

Init ==
    /\ book = EmptyBook
    /\ orders = <<>>
    /\ trades = <<>>
    /\ cancel_ids = <<>>
    /\ pool = NewPool
    /\ pool_mem = <<>>
    /\ handed = <<>>
    /\ pool_calls = 0
    /\ engine = NewEngine
    /\ log = EmptyLog
    /\ engine2 = NewEngine
    /\ log2 = EmptyLog
    /\ backtest = <<>>
    /\ mm = <<>>

\* ------------------------------------------------- the stand-alone book
\* prices a caller passes: LIMIT orders carry 1..MaxPrice, MARKET orders 0
\* (the price of a MARKET order is never read)
OrderPrices(type) == IF type = "LIMIT" THEN 1..MaxPrice ELSE {0}

\* the caller constructs an Order and passes its address to add_order; ids
\* and timestamps follow the order of the calls, as in test_order_book.cpp
BookResult(r) ==
    /\ book' = r.book
    /\ orders' = r.mem
    /\ trades' = trades \o r.trades

\* Order o(...); book.add_order(&o)
AddOrderCall ==
    \E side \in Sides, type \in OrderTypes, qty \in 1..MaxQty :
      \E price \in OrderPrices(type) :
        BookResult(add_order(book,
                             Append(orders, NewOrder(Len(orders) + 1, price, qty,
                                                     Len(orders) + 1, side, type, 1)),
                             Len(orders) + 1))

BookAddOrder ==
    /\ Len(orders) < MaxOrders
    /\ AddOrderCall
    /\ UNCHANGED <<cancel_ids, poolVars, engineVars, twinVars, runVars>>

BookNext == BookAddOrder

SpecBook == Init /\ [][BookNext]_vars

\* ------------------------------- the stand-alone book, with cancel_order
\* book.add_order(&o), on the book cancel_order is called on
CancelAddOrder ==
    /\ Len(orders) < MaxCancelAdds
    /\ AddOrderCall
    /\ UNCHANGED <<cancel_ids, poolVars, engineVars, twinVars, runVars>>

\* book.cancel_order(id), with the id of an order passed before or an id the
\* book has never seen
BookCancelOrder ==
    /\ Len(cancel_ids) < MaxCancels
    /\ \E id \in 1..(MaxCancelAdds + 1) :
         /\ BookResult(cancel_order(book, orders, id))
         /\ cancel_ids' = Append(cancel_ids, id)
    /\ UNCHANGED <<poolVars, engineVars, twinVars, runVars>>

CancelNext == CancelAddOrder \/ BookCancelOrder

SpecCancel == Init /\ [][CancelNext]_vars

\* ------------------- the stand-alone book, with caller-chosen timestamps
\* Order o(id, price, qty, ts, ...); book.add_order(&o), where ts need not
\* follow the order of the calls
StampAddOrder ==
    /\ Len(orders) < MaxStampAdds
    /\ \E side \in Sides, type \in OrderTypes, qty \in 1..MaxQty, ts \in 1..MaxTime :
         \E price \in OrderPrices(type) :
           BookResult(add_order(book,
                                Append(orders, NewOrder(Len(orders) + 1, price, qty,
                                                        ts, side, type, 1)),
                                Len(orders) + 1))
    /\ UNCHANGED <<cancel_ids, poolVars, engineVars, twinVars, runVars>>

StampNext == StampAddOrder

SpecStamp == Init /\ [][StampNext]_vars

\* ------------------------------------------------- the stand-alone pool
\* T* obj = pool.allocate(); obj->id = v   (benchmark_memory_pool)
PoolResult(a, v) ==
    /\ pool' = a.pool
    /\ pool_mem' = MapPut(pool_mem, a.slot, v)
    /\ handed' = Append(handed, a.slot)

PoolAllocate ==
    /\ pool_calls < MaxPoolCalls
    /\ \E v \in 1..MaxQty : PoolResult(allocate(pool), v)
    /\ pool_calls' = pool_calls + 1
    /\ UNCHANGED <<bookVars, engineVars, twinVars, runVars>>

\* pool.reset()
PoolReset ==
    /\ pool_calls < MaxPoolCalls
    /\ pool' = reset(pool)
    /\ handed' = <<>>
    /\ pool_calls' = pool_calls + 1
    /\ UNCHANGED <<pool_mem, bookVars, engineVars, twinVars, runVars>>

PoolNext == PoolAllocate \/ PoolReset

SpecPool == Init /\ [][PoolNext]_vars

\* ------------------------------------------------------------ the engine
\* what a strategy may submit: <<side, type, price, quantity>>
OrderChoices ==
    {<<"SELL", "LIMIT", 1, 2>>, <<"BUY", "LIMIT", 1, 1>>, <<"BUY", "MARKET", 0, 2>>}

\* the ids a caller of submit_order leaves in the template: 0 as the
\* strategies do, or an id the engine also assigns
TemplateIds == {0, 2}

\* the Order a strategy builds: Order(0, price, qty, tick.timestamp, ...)
Template(c, ts) == NewOrder(0, c[3], c[4], ts, c[1], c[2], 1)

\* what one on_tick may submit: at most MaxSubmit orders, and no more than
\* `left`
Submissions(ts, left) ==
    UNION {[1..n -> {Template(c, ts) : c \in OrderChoices}] : n \in 0..Min2(MaxSubmit, left)}

RECURSIVE PlanSize(_, _)
PlanSize(plan, i) ==
    IF i = 0 THEN 0 ELSE Len(plan[i]) + PlanSize(plan, i - 1)

OrdersLeft == MaxEngineOrders - (engine.next_order_id_ - 1)
OrdersLeft2 == MaxEngineOrders - (engine2.next_order_id_ - 1)

EngineResult(eg) ==
    /\ engine' = eg.e
    /\ log' = eg.g

\* engine.add_strategy(...)
EngineAddStrategy ==
    /\ engine.strategies_ < MaxStrategies
    /\ engine' = add_strategy(engine)
    /\ UNCHANGED <<log, bookVars, poolVars, twinVars, runVars>>

\* engine.process_tick(tick)
EngineProcessTick ==
    /\ engine.stats_.ticks_processed < MaxTicks
    /\ \E symbol \in Symbols, latency \in Latencies :
         LET tick == [symbol |-> symbol, timestamp |-> engine.stats_.ticks_processed + 1]
             keys == DOMAIN engine.order_books_ \cup {symbol}
         IN \E iter \in Orderings(keys) :
              \E plan \in [1..engine.strategies_ -> Submissions(tick.timestamp, OrdersLeft)] :
                 /\ PlanSize(plan, engine.strategies_) <= OrdersLeft
                 /\ EngineResult(process_tick([e |-> engine, g |-> log],
                                              tick, iter, plan, latency))
    /\ UNCHANGED <<bookVars, poolVars, twinVars, runVars>>

\* engine.submit_order(order) called from outside process_tick
EngineSubmitOrder ==
    /\ OrdersLeft > 0
    /\ \E c \in OrderChoices, tid \in TemplateIds :
         EngineResult(submit_order([e |-> engine, g |-> log],
                                   [Template(c, 0) EXCEPT !.id = tid], "none"))
    /\ UNCHANGED <<bookVars, poolVars, twinVars, runVars>>

EngineNext == EngineAddStrategy \/ EngineProcessTick \/ EngineSubmitOrder

SpecEngine == Init /\ [][EngineNext]_vars

\* --------------------------- the engine, with direct calls on its books
\* what a caller installs with set_trade_callback: its own function, or an
\* empty std::function
CallerCallbacks == {"caller", "none"}

\* the Order objects of the caller that were passed to a book: they live
\* outside the arena, modelled as block -1
CallerOrders(e) == {k \in DOMAIN e.mem : k[1] = -1}

\* engine.get_order_book(sym)->set_trade_callback(cb)
EngineSetTradeCallback ==
    /\ \E sym \in DOMAIN engine.order_books_, cb \in CallerCallbacks :
         engine' = [engine EXCEPT !.order_books_[sym] =
                                      set_trade_callback(get_order_book(engine, sym), cb)]
    /\ UNCHANGED <<log, bookVars, poolVars, twinVars, runVars>>

\* Order o(id, ...); engine.get_order_book(sym)->add_order(&o), with ids of
\* the caller's own (90 and up)
EngineBookAddOrder ==
    /\ Cardinality(CallerOrders(engine)) < MaxBookCalls
    /\ \E sym \in DOMAIN engine.order_books_, c \in OrderChoices :
         EngineResult(book_add_order([e |-> engine, g |-> log], sym,
                                     NewOrder(90 + Cardinality(CallerOrders(engine)),
                                              c[3], c[4], 0, c[1], c[2], 99),
                                     <<-1, Cardinality(CallerOrders(engine))>>))
    /\ UNCHANGED <<bookVars, poolVars, twinVars, runVars>>

\* the calls a program makes on an engine and its books when it registers
\* no strategy (test_strategy_position_tracking)
EngineCallsNext ==
    \/ EngineProcessTick
    \/ EngineSubmitOrder
    \/ EngineSetTradeCallback
    \/ EngineBookAddOrder

SpecEngineCalls == Init /\ [][EngineCallsNext]_vars

\* ------------------------------------- two engines run on the same input
\* engine.add_strategy(s) and engine2.add_strategy(s'), s' a strategy of
\* the same class constructed with the same arguments
TwinAddStrategy ==
    /\ engine.strategies_ < MaxStrategies
    /\ engine' = add_strategy(engine)
    /\ engine2' = add_strategy(engine2)
    /\ UNCHANGED <<log, log2, bookVars, poolVars, runVars>>

\* engine.process_tick(tick) and engine2.process_tick(tick).  Both maps are
\* the same std::unordered_map code of one program: after the same
\* insertions they iterate in the same order.  The strategies are the same
\* code: after the same callbacks they submit the same orders.  The clock
\* is read separately in each call.
TwinProcessTick ==
    /\ engine.stats_.ticks_processed < MaxTicks
    /\ \E symbol \in Symbols, latency \in Latencies, latency2 \in Latencies :
         LET tick == [symbol |-> symbol, timestamp |-> engine.stats_.ticks_processed + 1]
             keys == DOMAIN engine.order_books_ \cup {symbol}
         IN \E iter \in Orderings(keys) :
              \E plan \in [1..engine.strategies_ -> Submissions(tick.timestamp, OrdersLeft)] :
                \E plan2 \in IF log.events = log2.events
                              THEN {plan}
                              ELSE [1..engine2.strategies_ ->
                                       Submissions(tick.timestamp, OrdersLeft2)] :
                 /\ PlanSize(plan, engine.strategies_) <= OrdersLeft
                 /\ PlanSize(plan2, engine2.strategies_) <= OrdersLeft2
                 /\ EngineResult(process_tick([e |-> engine, g |-> log],
                                              tick, iter, plan, latency))
                 /\ engine2' = process_tick([e |-> engine2, g |-> log2],
                                            tick, iter, plan2, latency2).e
                 /\ log2' = process_tick([e |-> engine2, g |-> log2],
                                         tick, iter, plan2, latency2).g
    /\ UNCHANGED <<bookVars, poolVars, runVars>>

TwinNext == TwinAddStrategy \/ TwinProcessTick

SpecTwin == Init /\ [][TwinNext]_vars

\* ------------------------------------------------------- run_backtest
\* the iteration orders an unordered_map over some of the symbols can have
IterChoices == UNION {Orderings(S) : S \in SUBSET Symbols}

\* the symbols of the first k ticks
SymbolsUpTo(ticks, k) == {ticks[j].symbol : j \in 1..k}

\* the orders n strategies submit from on_tick of the k-th tick
PlansAt(k, n) == [1..n -> Submissions(k, MaxEngineOrders)]

RECURSIVE TotalPlanned(_, _, _)
TotalPlanned(plans, n, k) ==
    IF k = 0 THEN 0 ELSE PlanSize(plans[k], n) + TotalPlanned(plans, n, k - 1)

\* what the process_tick calls of one run_backtest over ticks draw from
\* outside the engine
BacktestEnvs(ticks, n) ==
    {env \in [iter : [DOMAIN ticks -> IterChoices],
              plan : [DOMAIN ticks -> UNION {PlansAt(k, n) : k \in DOMAIN ticks}],
              latency : [DOMAIN ticks -> Latencies]] :
        /\ \A k \in DOMAIN ticks : /\ env.iter[k] \in Orderings(SymbolsUpTo(ticks, k))
                                    /\ env.plan[k] \in PlansAt(k, n)
        /\ TotalPlanned(env.plan, n, Len(ticks)) <= MaxEngineOrders}

\* the vectors of up to MaxTicks ticks, stamped 1, 2, ...
TickVectors ==
    UNION {{[k \in 1..n |-> [symbol |-> syms[k], timestamp |-> k]] : syms \in [1..n -> Symbols]}
           : n \in 0..MaxTicks}

\* engine.run_backtest(ticks) on an engine that has only been given its
\* strategies
BacktestRun ==
    /\ backtest = <<>>
    /\ engine = [NewEngine EXCEPT !.strategies_ = engine.strategies_]
    /\ \E ticks \in TickVectors :
         \E env \in BacktestEnvs(ticks, engine.strategies_) :
            /\ EngineResult(run_backtest([e |-> engine, g |-> log], ticks, env))
            /\ backtest' = <<[ticks |-> ticks, strategies |-> engine.strategies_]>>
    /\ UNCHANGED <<mm, bookVars, poolVars, twinVars>>

BacktestNext == EngineAddStrategy \/ BacktestRun

SpecBacktest == Init /\ [][BacktestNext]_vars

\* ----------------------------------------- the engine with a market maker
\* the arguments the program constructs its MarketMakerStrategy with
MMSpreads == {1, 2}
MMMaxPositions == {0, 1}

\* engine.add_strategy(std::make_unique<MarketMakerStrategy>(spread,
\* MMQuoteSize, max_position)) on a new engine
MMRegister ==
    /\ mm = <<>>
    /\ engine = NewEngine
    /\ \E spread \in MMSpreads, max_position \in MMMaxPositions :
         mm' = <<MarketMakerStrategy(spread, MMQuoteSize, max_position)>>
    /\ engine' = add_strategy(engine)
    /\ UNCHANGED <<log, backtest, bookVars, poolVars, twinVars>>

\* what process_tick leaves: the engine, and the strategy after its on_tick
\* and the on_trade calls it received
MMResult(eg, m, trades_before) ==
    /\ EngineResult(eg)
    /\ mm' = <<MarketMaker_on_trades(m, SubSeq(eg.g.trades, trades_before + 1,
                                               Len(eg.g.trades)))>>

\* Tick{"TEST", mid_price, ...}: the ticks have one symbol and a stable
\* price
MMTick(n) == [symbol |-> "A", price |-> MMMidPrice, timestamp |-> n]

\* engine.process_tick(tick), the next of the ticks
MMProcessTick ==
    /\ mm # <<>>
    /\ engine.stats_.ticks_processed < MaxMMTicks
    /\ \E latency \in Latencies :
         MMResult(process_tick([e |-> engine, g |-> log],
                               MMTick(engine.stats_.ticks_processed + 1),
                               <<"A">>,
                               <<MarketMaker_on_tick(
                                    mm[1], MMTick(engine.stats_.ticks_processed + 1)).orders>>,
                               latency),
                  MarketMaker_on_tick(mm[1], MMTick(engine.stats_.ticks_processed + 1)).m,
                  Len(log.trades))
    /\ UNCHANGED <<backtest, bookVars, poolVars, twinVars>>

MarketMakerNext == MMRegister \/ MMProcessTick

SpecMarketMaker == Init /\ [][MarketMakerNext]_vars


\* ------------------------------------------------ properties of the book
\* In SpecBook the k-th order has id k, so of the two orders of a trade the
\* one with the smaller id was resting (maker) and the other was incoming
\* (taker).
Maker(t) == orders[Min2(t.buy_order_id, t.sell_order_id)]
Taker(t) == orders[Max2(t.buy_order_id, t.sell_order_id)]

RECURSIVE SumRemaining(_, _)
SumRemaining(ptrs, mem) ==
    IF ptrs = <<>> THEN 0
    ELSE remaining(mem[Head(ptrs)]) + SumRemaining(Tail(ptrs), mem)

LevelConsistent(level, mem) ==
    /\ level.orders # <<>>
    /\ level.total_quantity = SumRemaining(level.orders, mem)

\* C1: best_bid() is the highest resting bid price and best_ask() the lowest
\* resting ask price, 0 on an empty side.
C1_BestPrices ==
    /\ best_bid(book) = (IF DOMAIN book.bids = {} THEN 0 ELSE SetMax(DOMAIN book.bids))
    /\ best_ask(book) = (IF DOMAIN book.asks = {} THEN 0 ELSE SetMin(DOMAIN book.asks))

\* C4: after every add_order, each level's total_quantity is the sum of
\* the residuals of its queue, and no level has an empty queue.
C4_LevelTotals ==
    /\ \A k \in DOMAIN book.bids : LevelConsistent(book.bids[k], orders)
    /\ \A k \in DOMAIN book.asks : LevelConsistent(book.asks[k], orders)

\* a level holding two orders whose head has been partly filled, after
\* another order was completed
C4_Witness ==
    /\ \E m \in {book.bids, book.asks} : \E k \in DOMAIN m :
         /\ Len(m[k].orders) >= 2
         /\ orders[m[k].orders[1]].status = "PARTIAL"
    /\ \E i \in DOMAIN orders : orders[i].status = "FILLED"

\* C5: the book is not crossed after add_order: every resting bid price is
\* strictly below every resting ask price.
C5_NotCrossed ==
    \A bp \in DOMAIN book.bids : \A ap \in DOMAIN book.asks : bp < ap

\* both sides rest after an incoming order has traded
C5_Witness ==
    /\ DOMAIN book.bids # {}
    /\ DOMAIN book.asks # {}
    /\ trades # <<>>

\* one add_order step keeps the time priority of the levels of map m
FifoStep(m) ==
    \A k \in DOMAIN m : \A i, j \in DOMAIN m[k].orders :
        i < j =>
          \* the queue is in arrival order (ids follow the add_order calls)
          /\ orders[m[k].orders[i]].id < orders[m[k].orders[j]].id
          /\ orders'[m[k].orders[j]].filled > orders[m[k].orders[j]].filled
                => orders'[m[k].orders[i]].filled = orders'[m[k].orders[i]].quantity

\* C6: FIFO within a level: in one add_order, a resting order receives a
\* fill only if every order ahead of it in its level ends completely filled.
C6_Fifo == [][FifoStep(book.bids) /\ FifoStep(book.asks)]_vars

\* two trades of one incoming order against two orders resting at the same
\* price, the earlier arrival traded first and the later one only in part
C6_Witness ==
    \E a, b \in DOMAIN trades :
        /\ a < b
        /\ Taker(trades[a]).id = Taker(trades[b]).id
        /\ Maker(trades[a]).id < Maker(trades[b]).id
        /\ Maker(trades[a]).price = Maker(trades[b]).price
        /\ Maker(trades[a]).status = "FILLED"
        /\ Maker(trades[b]).status = "PARTIAL"

\* in this step some order of level k received a fill / every order of
\* level k ends completely filled
Filled(m, k) == \E i \in DOMAIN m[k].orders :
                    orders'[m[k].orders[i]].filled > orders[m[k].orders[i]].filled
Exhausted(m, k) == \A i \in DOMAIN m[k].orders :
                    orders'[m[k].orders[i]].filled = orders'[m[k].orders[i]].quantity

\* C7: best price first: in one add_order, an order resting at a worse
\* price receives a fill only if every order at every better opposing price
\* ends completely filled.
C7_BestPriceFirst ==
    [][/\ \A k1, k2 \in DOMAIN book.asks :
            (k1 < k2 /\ Filled(book.asks, k2)) => Exhausted(book.asks, k1)
       /\ \A k1, k2 \in DOMAIN book.bids :
            (k1 > k2 /\ Filled(book.bids, k2)) => Exhausted(book.bids, k1)]_vars

\* a SELL that swept two bid levels, the higher one first
C7_Witness ==
    \E a, b \in DOMAIN trades :
        /\ a < b
        /\ Taker(trades[a]).id = Taker(trades[b]).id
        /\ Taker(trades[a]).side = "SELL"
        /\ trades[a].price > trades[b].price

\* C8: every trade is priced at the resting order's level price.
C8_MakerPrice ==
    \A i \in DOMAIN trades : trades[i].price = Maker(trades[i]).price

\* a LIMIT taker and a MARKET taker, each traded at a price that is not its own
C8_Witness ==
    /\ \E i \in DOMAIN trades :
         Taker(trades[i]).type = "LIMIT" /\ Taker(trades[i]).price # trades[i].price
    /\ \E i \in DOMAIN trades : Taker(trades[i]).type = "MARKET"

\* the trades of this step and the order it was called with
NewTrades == SubSeq(trades', Len(trades) + 1, Len(trades'))
Incoming == orders'[Len(orders')]

\* C9: a LIMIT order never trades through its limit, and matching leaves
\* every opposing level beyond the limit untouched.
C9_LimitRespected ==
    [][Incoming.type = "LIMIT" =>
        IF Incoming.side = "BUY"
        THEN /\ \A i \in DOMAIN NewTrades : NewTrades[i].price <= Incoming.price
             /\ \A k \in DOMAIN book.asks :
                  k > Incoming.price => (k \in DOMAIN book.asks' /\ book.asks'[k] = book.asks[k])
        ELSE /\ \A i \in DOMAIN NewTrades : NewTrades[i].price >= Incoming.price
             /\ \A k \in DOMAIN book.bids :
                  k < Incoming.price => (k \in DOMAIN book.bids' /\ book.bids'[k] = book.bids[k])]_vars

\* a LIMIT BUY that traded, stopped short of a dearer ask level and rests
C9_Witness ==
    \E i \in DOMAIN trades :
        /\ Taker(trades[i]).type = "LIMIT"
        /\ Taker(trades[i]).side = "BUY"
        /\ remaining(Taker(trades[i])) > 0
        /\ \E k \in DOMAIN book.asks : k > Taker(trades[i]).price

\* C10: 0 <= filled <= quantity for every order ever passed to add_order.
C10_FilledBounds ==
    \A i \in DOMAIN orders : 0 <= orders[i].filled /\ orders[i].filled <= orders[i].quantity

\* a resting order filled up by two different incoming orders
C10_Witness ==
    \E a, b \in DOMAIN trades :
        /\ a < b
        /\ Maker(trades[a]).id = Maker(trades[b]).id
        /\ Taker(trades[a]).id # Taker(trades[b]).id
        /\ Maker(trades[a]).filled = Maker(trades[a]).quantity

\* C11 as stated: after every add_order, for every order, status = FILLED
\* iff filled = quantity and status = PARTIAL iff 0 < filled < quantity, a
\* MARKET order filled in part included.
C11_StatusMatchesFill ==
    \A i \in DOMAIN orders :
        /\ orders[i].status = "FILLED" <=> orders[i].filled = orders[i].quantity
        /\ orders[i].status = "PARTIAL" <=>
              (0 < orders[i].filled /\ orders[i].filled < orders[i].quantity)

\* C11 amended: status = FILLED iff filled = quantity; an order with
\* 0 < filled < quantity is PARTIAL, or CANCELLED when it is a MARKET order;
\* and no other order is PARTIAL.
C11_StatusMatchesFillOrCancelled ==
    \A i \in DOMAIN orders :
        /\ orders[i].status = "FILLED" <=> orders[i].filled = orders[i].quantity
        /\ (0 < orders[i].filled /\ orders[i].filled < orders[i].quantity) =>
              orders[i].status = (IF orders[i].type = "MARKET" THEN "CANCELLED" ELSE "PARTIAL")
        /\ orders[i].status = "PARTIAL" =>
              (0 < orders[i].filled /\ orders[i].filled < orders[i].quantity)

\* a MARKET order that ran out of liquidity after a fill, next to the
\* resting order it completed
C11_Witness ==
    /\ \E i \in DOMAIN orders :
         /\ orders[i].type = "MARKET"
         /\ 0 < orders[i].filled /\ orders[i].filled < orders[i].quantity
         /\ orders[i].status = "CANCELLED"
    /\ \E i \in DOMAIN orders : orders[i].type = "LIMIT" /\ orders[i].status = "FILLED"

\* the places (price, position) where a level of map m holds the pointer s
LevelRefs(m, s) ==
    UNION {{<<k, i>> : i \in {j \in DOMAIN m[k].orders : m[k].orders[j] = s}} : k \in DOMAIN m}

\* the order pointer p is in some level of the book
Referenced(b, p) ==
    \E m \in {b.bids, b.asks} : \E k \in DOMAIN m :
        \E i \in DOMAIN m[k].orders : m[k].orders[i] = p

\* C12: a MARKET order is never left resting: after its add_order no level
\* references it and, when not fully filled, its status is CANCELLED; against
\* an empty opposite side it ends with filled = 0, CANCELLED, no trade and
\* both sides of the book unchanged.
C12_MarketNeverRests ==
    [][Incoming.type = "MARKET" =>
        /\ ~Referenced(book', Len(orders'))
        /\ Incoming.filled < Incoming.quantity => Incoming.status = "CANCELLED"
        /\ (IF Incoming.side = "BUY" THEN DOMAIN book.asks = {} ELSE DOMAIN book.bids = {}) =>
              /\ Incoming.filled = 0
              /\ Incoming.status = "CANCELLED"
              /\ trades' = trades
              /\ book'.bids = book.bids
              /\ book'.asks = book.asks]_vars

\* a MARKET order cancelled after a partial fill, and a MARKET order that
\* met an empty opposite side while its own side had resting orders
C12_Witness ==
    /\ \E i \in DOMAIN orders :
         /\ orders[i].type = "MARKET"
         /\ 0 < orders[i].filled /\ orders[i].filled < orders[i].quantity
         /\ orders[i].status = "CANCELLED"
    /\ \E i \in DOMAIN orders :
         /\ orders[i].type = "MARKET"
         /\ orders[i].filled = 0
         /\ orders[i].status = "CANCELLED"

RECURSIVE SumFilled(_, _)
SumFilled(os, side) ==
    IF os = <<>> THEN 0
    ELSE (IF Head(os).side = side THEN Head(os).filled ELSE 0) + SumFilled(Tail(os), side)

RECURSIVE SumTradeQuantity(_)
SumTradeQuantity(ts) ==
    IF ts = <<>> THEN 0 ELSE Head(ts).quantity + SumTradeQuantity(Tail(ts))

\* C13: matched quantity is conserved: the filled total of the BUY orders
\* equals the filled total of the SELL orders, and both equal the total
\* quantity of the trades the book emitted.
C13_Conservation ==
    /\ SumFilled(orders, "BUY") = SumFilled(orders, "SELL")
    /\ SumFilled(orders, "BUY") = SumTradeQuantity(trades)

\* two trades, with an order left partly filled and resting
C13_Witness ==
    /\ Len(trades) >= 2
    /\ \E i \in DOMAIN orders : orders[i].status = "PARTIAL" /\ Referenced(book, i)

\* the incoming LIMIT order of this step does not cross the book before it
NoCross ==
    /\ Incoming.type = "LIMIT"
    /\ Incoming.quantity > 0
    /\ IF Incoming.side = "BUY"
       THEN DOMAIN book.asks = {} \/ Incoming.price < SetMin(DOMAIN book.asks)
       ELSE DOMAIN book.bids = {} \/ Incoming.price > SetMax(DOMAIN book.bids)

\* map m, as add_order leaves it, holds the incoming order last in the level
\* at its price
RestsAtOwnPrice(m) ==
    /\ Incoming.price \in DOMAIN m
    /\ m[Incoming.price].price = Incoming.price
    /\ m[Incoming.price].orders # <<>>
    /\ m[Incoming.price].orders[Len(m[Incoming.price].orders)] = Len(orders')

\* C20: a LIMIT BUY priced strictly below the lowest ask (or with no asks)
\* produces no trade, leaves the asks and ask_volume() unchanged, raises
\* bid_volume() by exactly its quantity, rests at its own price and ends
\* PENDING; symmetrically for a LIMIT SELL strictly above the highest bid.
C20_NoCrossRests ==
    [][NoCross =>
        /\ trades' = trades
        /\ Incoming.status = "PENDING"
        /\ Incoming.filled = 0
        /\ IF Incoming.side = "BUY"
           THEN /\ book'.asks = book.asks
                /\ ask_volume(book') = ask_volume(book)
                /\ bid_volume(book') = bid_volume(book) + Incoming.quantity
                /\ RestsAtOwnPrice(book'.bids)
           ELSE /\ book'.bids = book.bids
                /\ bid_volume(book') = bid_volume(book)
                /\ ask_volume(book') = ask_volume(book) + Incoming.quantity
                /\ RestsAtOwnPrice(book'.asks)]_vars

\* two untouched orders queued at one bid price below a resting ask
C20_Witness ==
    /\ DOMAIN book.asks # {}
    /\ \E k \in DOMAIN book.bids :
         /\ k < SetMin(DOMAIN book.asks)
         /\ Len(book.bids[k].orders) = 2
         /\ \A i \in DOMAIN book.bids[k].orders :
              orders[book.bids[k].orders[i]].status = "PENDING"

\* this step is a cancel_order call / the id it was called with
CancelStep == cancel_ids' # cancel_ids
CancelledId == cancel_ids'[Len(cancel_ids')]

\* the ids of the orders resting in book b
RestingIds(b, mem) == {mem[p].id : p \in {q \in DOMAIN mem : Referenced(b, q)}}

\* C18: a LIMIT order that did not cross is added and cancel_order is then
\* called with its id: bid_volume() + ask_volume() is back at its value from
\* before the add, the order is in no level, no level is left empty and the
\* order's status is CANCELLED.
C18_CancelRestores ==
    [][(/\ CancelStep
        /\ CancelledId = Len(orders)
        /\ orders[CancelledId].type = "LIMIT"
        /\ orders[CancelledId].filled = 0
        /\ Referenced(book, CancelledId)) =>
          /\ bid_volume(book') + ask_volume(book')
                = bid_volume(book) + ask_volume(book) - orders[CancelledId].quantity
          /\ ~Referenced(book', CancelledId)
          /\ \A m \in {book'.bids, book'.asks} : \A k \in DOMAIN m : m[k].orders # <<>>
          /\ orders'[CancelledId].status = "CANCELLED"]_vars

\* C19: cancel_order with an id of no resting order changes nothing: the
\* levels, bid_volume(), ask_volume(), best_bid(), best_ask(),
\* total_trades() and the status of every order are as before, and no trade
\* is emitted.
C19_CancelUnknownNoOp ==
    [][(CancelStep /\ CancelledId \notin RestingIds(book, orders)) =>
          /\ book'.bids = book.bids
          /\ book'.asks = book.asks
          /\ bid_volume(book') = bid_volume(book)
          /\ ask_volume(book') = ask_volume(book)
          /\ best_bid(book') = best_bid(book)
          /\ best_ask(book') = best_ask(book)
          /\ total_trades(book') = total_trades(book)
          /\ trades' = trades
          /\ \A i \in DOMAIN orders : orders'[i].status = orders[i].status]_vars

\* cancel_order was called with the id of an order that had been filled,
\* while another order was resting
C19_Witness ==
    /\ cancel_ids # <<>>
    /\ cancel_ids[1] \in DOMAIN orders
    /\ orders[cancel_ids[1]].filled = orders[cancel_ids[1]].quantity
    /\ cancel_ids[1] \notin RestingIds(book, orders)
    /\ RestingIds(book, orders) # {}

\* the map an incoming order matches against / the map it rests in
OppositeMap(b, side) == IF side = "BUY" THEN b.asks ELSE b.bids
OwnMap(b, side) == IF side = "BUY" THEN b.bids ELSE b.asks

\* volume and best price of the side an incoming order matches against
OppositeVolume(b, side) == IF side = "BUY" THEN ask_volume(b) ELSE bid_volume(b)
OppositeBest(b, side) == IF side = "BUY" THEN best_ask(b) ELSE best_bid(b)

\* C22: when add_order matches an incoming BUY for f units in total,
\* ask_volume() drops by exactly f (bid_volume() for a SELL); a resting order
\* consumed in part stays at the head of its level with status PARTIAL; and
\* when the whole opposing side is consumed its volume is 0 and its best
\* price reads 0.
C22_VolumeUnderFills ==
    [][/\ OppositeVolume(book', Incoming.side)
            = OppositeVolume(book, Incoming.side) - Incoming.filled
       /\ \A p \in DOMAIN orders :
            (orders'[p].filled > orders[p].filled
               /\ orders'[p].filled < orders'[p].quantity) =>
              /\ orders'[p].status = "PARTIAL"
              /\ \E k \in DOMAIN OppositeMap(book', Incoming.side) :
                    Head(OppositeMap(book', Incoming.side)[k].orders) = p
       /\ (DOMAIN OppositeMap(book, Incoming.side) # {}
             /\ Incoming.filled = OppositeVolume(book, Incoming.side)) =>
              /\ DOMAIN OppositeMap(book', Incoming.side) = {}
              /\ OppositeVolume(book', Incoming.side) = 0
              /\ OppositeBest(book', Incoming.side) = 0]_vars

\* a resting SELL consumed in two steps by two BUY orders, which empties
\* the ask side
C22_Witness ==
    /\ Len(trades) = 2
    /\ Len(orders) = 3
    /\ orders[1].side = "SELL" /\ orders[1].status = "FILLED"
    /\ trades[1].sell_order_id = 1 /\ trades[2].sell_order_id = 1
    /\ trades[1].buy_order_id = 2 /\ trades[2].buy_order_id = 3
    /\ ask_volume(book) = 0
    /\ best_ask(book) = 0

\* C28: a LIMIT order rests after add_order iff it was not fully filled;
\* when it rests it is at the tail of the level at its own price on its own
\* side, behind the orders that were there, the level's total_quantity has
\* grown by its residual, and its status is PENDING without a fill and
\* PARTIAL with one.
C28_RestsIffUnfilled ==
    [][Incoming.type = "LIMIT" =>
        /\ Referenced(book', Len(orders')) <=> Incoming.filled < Incoming.quantity
        /\ Incoming.filled < Incoming.quantity =>
             /\ RestsAtOwnPrice(OwnMap(book', Incoming.side))
             /\ LevelRefs(OppositeMap(book', Incoming.side), Len(orders')) = {}
             /\ Cardinality(LevelRefs(OwnMap(book', Incoming.side), Len(orders'))) = 1
             /\ OwnMap(book', Incoming.side)[Incoming.price].orders
                  = Append(MapAt(OwnMap(book, Incoming.side), Incoming.price).orders,
                           Len(orders'))
             /\ OwnMap(book', Incoming.side)[Incoming.price].total_quantity
                  = MapAt(OwnMap(book, Incoming.side), Incoming.price).total_quantity
                      + (Incoming.quantity - Incoming.filled)
             /\ Incoming.status = (IF Incoming.filled = 0 THEN "PENDING" ELSE "PARTIAL")]_vars

\* a LIMIT order that traded as the incoming order and rests PARTIAL, and
\* a later LIMIT order queued behind it PENDING
C28_Witness ==
    \E m \in {book.bids, book.asks} : \E k \in DOMAIN m :
        /\ Len(m[k].orders) = 2
        /\ orders[m[k].orders[1]].status = "PARTIAL"
        /\ \E i \in DOMAIN trades : Taker(trades[i]).id = orders[m[k].orders[1]].id
        /\ orders[m[k].orders[2]].status = "PENDING"

\* the resting order of trade t of this step, as it was before the step
RestingOf(t) == orders[Min2(t.buy_order_id, t.sell_order_id)]

C2_DistinctSlots ==
    /\ \A i, j \in DOMAIN handed : i # j => handed[i] # handed[j]
    /\ Len(handed) > BlockSize => pool.blocks_ >= 2

\* this step is a reset() call / some reset() has been called
ResetStep == pool_calls' = pool_calls + 1 /\ handed' = <<>>
ResetDone == pool_calls > Len(handed)

\* C26: reset() leaves memory_usage() unchanged and allocated_count() at 0,
\* and the allocate() calls after a reset() return pairwise distinct slots
\* until the next reset(), also once the first block has been refilled.
C26_ResetThenDistinct ==
    [][/\ ResetStep => /\ memory_usage(pool') = memory_usage(pool)
                        /\ allocated_count(pool') = 0
       /\ ResetDone' => \A i, j \in DOMAIN handed' : i # j => handed'[i] # handed'[j]]_vars

\* C29: allocated_count() is the number of allocate() calls since
\* construction or the last reset(), also above BlockSize.
C29_CountsAllocations == allocated_count(pool) = Len(handed)

\* ---------------------------------------------- properties of the engine
\* C3: an order submitted while the engine processes a tick for symbol S is
\* inserted into the book of S.
C3_RoutedToTickSymbol ==
    \A i \in DOMAIN log.submits :
        log.submits[i].during # "none" => log.submits[i].book = log.submits[i].during

\* C16: the k-th submit_order call of an engine stamps its order with id k,
\* whatever id the template carried: ids start at 1, grow by one and are
\* never shared.
C16_IdsFromOne ==
    /\ \A k \in DOMAIN log.submits : log.submits[k].id = k
    /\ \A s \in DOMAIN engine.mem : engine.mem[s].id \in 1..Len(log.submits)

\* three submissions, from a strategy during a tick and from outside, the
\* third into the arena slot of the first
C16_Witness ==
    /\ Len(log.submits) = 3
    /\ \E k \in DOMAIN log.submits : log.submits[k].during = "none"
    /\ \E k \in DOMAIN log.submits : log.submits[k].during # "none"
    /\ log.submits[3].slot = log.submits[1].slot

\* the places (symbol, side, price, position) where a level of a book of
\* engine e holds the pointer s
Refs(e, s) ==
    UNION {{<<sym, "bids", r>> : r \in LevelRefs(e.order_books_[sym].bids, s)} \cup
           {<<sym, "asks", r>> : r \in LevelRefs(e.order_books_[sym].asks, s)} :
           sym \in DOMAIN e.order_books_}

\* the fields of an order that matching never writes
SubmittedFields(o) ==
    <<o.id, o.price, o.quantity, o.initial_quantity, o.timestamp, o.side, o.type, o.user_id>>

\* C14: every order record is referenced by at most one price level, at
\* most once within it, across all books of the engine, and a later
\* submission does not overwrite the fields of an order that still rests;
\* also after more than BlockSize submissions.
C14_ArenaOwnership ==
    [][/\ \A s \in DOMAIN engine'.mem : Cardinality(Refs(engine', s)) <= 1
       /\ \A s \in DOMAIN engine.mem :
            Refs(engine, s) # {} =>
              SubmittedFields(engine'.mem[s]) = SubmittedFields(engine.mem[s])]_vars

RECURSIVE SumTotalTrades(_)
SumTotalTrades(books) ==
    IF DOMAIN books = {} THEN 0
    ELSE LET sym == CHOOSE x \in DOMAIN books : TRUE
         IN total_trades(books[sym]) + SumTotalTrades(MapErase(books, sym))

\* C15 as stated: after any sequence of process_tick, submit_order, and
\* add_order or set_trade_callback calls on the engine's books,
\* stats.trades_executed is the sum of total_trades() over the books.
C15_TradesCounted ==
    engine.stats_.trades_executed = SumTotalTrades(engine.order_books_)

\* C15 amended: the same, as long as every book still has the trade
\* callback the engine installed.
C15_TradesCountedWhileWired ==
    (\A sym \in DOMAIN engine.order_books_ :
        engine.order_books_[sym].trade_callback = "engine") =>
      engine.stats_.trades_executed = SumTotalTrades(engine.order_books_)

\* two books with the engine's callback and two trades, one of them with an
\* order the caller added directly to a book
C15_Witness ==
    /\ Cardinality(DOMAIN engine.order_books_) = 2
    /\ \A sym \in DOMAIN engine.order_books_ :
         engine.order_books_[sym].trade_callback = "engine"
    /\ engine.stats_.trades_executed >= 2
    /\ \E i \in DOMAIN log.trades :
         log.trades[i].buy_order_id >= 90 \/ log.trades[i].sell_order_id >= 90
    /\ \E i \in DOMAIN log.trades :
         log.trades[i].buy_order_id < 90 /\ log.trades[i].sell_order_id < 90

\* C17 as stated: two fresh engines with the same strategies, fed the same
\* ticks, have identical Stats (ticks_processed, orders_submitted,
\* trades_executed, total_latency_ns) and identical sequences of trades.
C17_Deterministic ==
    /\ engine.stats_ = engine2.stats_
    /\ log.trades = log2.trades

\* C17 amended: identical ticks_processed, orders_submitted and
\* trades_executed and identical sequences of trades; total_latency_ns is
\* what the clock measured and may differ.
C17_DeterministicButLatency ==
    /\ engine.stats_.ticks_processed = engine2.stats_.ticks_processed
    /\ engine.stats_.orders_submitted = engine2.stats_.orders_submitted
    /\ engine.stats_.trades_executed = engine2.stats_.trades_executed
    /\ log.trades = log2.trades

\* two ticks with orders and a trade on both engines, and different
\* accumulated latencies
C17_Witness ==
    /\ engine.stats_.ticks_processed = 2
    /\ engine.stats_.orders_submitted >= 2
    /\ log.trades # <<>>
    /\ log2.trades # <<>>
    /\ engine.stats_.total_latency_ns # engine2.stats_.total_latency_ns

\* the submit_order calls whose order was passed to a book's add_order
PassedToBook == {k \in DOMAIN log.submits : log.submits[k].book # "none"}

\* C30: after any sequence of process_tick and submit_order calls, also
\* with submit_order before any book exists, stats.orders_submitted is the
\* number of ids assigned (next id - 1) and the number of orders passed to a
\* book's add_order.
C30_SubmittedCount ==
    /\ engine.stats_.orders_submitted = engine.next_order_id_ - 1
    /\ engine.stats_.orders_submitted = Cardinality(PassedToBook)

\* the entries one step of the engine appends to log.events and log.trades
NewEvents == SubSeq(log.events', Len(log.events) + 1, Len(log.events'))
EngineNewTrades == SubSeq(log.trades', Len(log.trades) + 1, Len(log.trades'))

\* the positions of ev that hold an entry of the kind
KindAt(ev, kind) == {p \in DOMAIN ev : ev[p].kind = kind}

\* the last position before p that holds an entry of the kind, or 0
LastOf(ev, kind, p) == SetMax({q \in KindAt(ev, kind) : q < p} \cup {0})

OnTicks(ev) == SelectSeq(ev, LAMBDA x : x.kind = "on_tick")
OnTrades(ev) == SelectSeq(ev, LAMBDA x : x.kind = "on_trade")

TradeIds(t) == {t.buy_order_id, t.sell_order_id}

\* the on_trade at p follows the submit_order call at s that caused it, made
\* from the on_tick at t, with no other on_tick in between, and each of the
\* n strategies gets that trade before the next submit_order or on_tick
TradeInsideOnTick(ev, n, p, s, t) ==
    /\ 0 < t
    /\ t < s
    /\ ev[s].id \in TradeIds(ev[p].trade)
    /\ \A j \in 1..n :
         \E q \in KindAt(ev, "on_trade") :
            /\ LastOf(ev, "submit", q) = s
            /\ ev[q].strategy = j
            /\ ev[q].trade = ev[p].trade

\* the events of one process_tick of the tick stamped ts with n strategies
InTickOrder(ev, n, ts) ==
    /\ Len(OnTicks(ev)) = n
    /\ \A i \in 1..n : /\ OnTicks(ev)[i].strategy = i
                       /\ OnTicks(ev)[i].tick.timestamp = ts
    /\ \A p \in KindAt(ev, "on_trade") :
         TradeInsideOnTick(ev, n, p, LastOf(ev, "submit", p), LastOf(ev, "on_tick", p))

TickStep == engine'.stats_.ticks_processed = engine.stats_.ticks_processed + 1

\* C21: the events of a call are appended after all events of the earlier
\* calls; within one process_tick the strategies get on_tick in
\* registration order, and every on_trade caused by an order strategy i
\* submits reaches all strategies before on_tick of strategy i+1.
C21_TickOrdering ==
    [][/\ Len(log.events) <= Len(log.events')
       /\ SubSeq(log.events', 1, Len(log.events)) = log.events
       /\ TickStep => InTickOrder(NewEvents, engine'.strategies_, engine'.current_time_)]_vars

\* two strategies, second tick: strategy 1's order trades, both strategies
\* get the trade, then strategy 2 gets its on_tick
C21_Witness ==
    \E p \in DOMAIN log.events :
       /\ p + 4 \in DOMAIN log.events
       /\ log.events[1].kind = "on_tick"
       /\ log.events[p].kind = "on_tick"
       /\ log.events[p].strategy = 1
       /\ log.events[1].tick.timestamp < log.events[p].tick.timestamp
       /\ log.events[p + 1].kind = "submit"
       /\ log.events[p + 2].kind = "on_trade"
       /\ log.events[p + 2].strategy = 1
       /\ log.events[p + 3].kind = "on_trade"
       /\ log.events[p + 3].strategy = 2
       /\ log.events[p + 4].kind = "on_tick"
       /\ log.events[p + 4].strategy = 2
       /\ log.events[p + 4].tick = log.events[p].tick

\* the on_trade callbacks d are, trade by trade of ts, one for each of the
\* n strategies in registration order, the k-th trade with the counter at
\* before + k
Delivered(d, ts, n, before) ==
    /\ Len(d) = n * Len(ts)
    /\ \A k \in 1..Len(ts), j \in 1..n :
         d[(k - 1) * n + j] = [kind |-> "on_trade", strategy |-> j, trade |-> ts[k],
                               executed |-> before + k]

TicksSeen(ev, i) ==
    [k \in DOMAIN SelectSeq(OnTicks(ev), LAMBDA x : x.strategy = i) |->
        SelectSeq(OnTicks(ev), LAMBDA x : x.strategy = i)[k].tick]

\* C24: after run_backtest on a fresh engine, stats.ticks_processed is the
\* number of ticks passed, whatever the number of strategies and of the
\* orders they submit, and every strategy got the ticks once each in input
\* order.
C24_BacktestProcessesAll ==
    backtest # <<>> =>
      /\ engine.stats_.ticks_processed = Len(backtest[1].ticks)
      /\ \A i \in 1..backtest[1].strategies :
           TicksSeen(log.events, i) = backtest[1].ticks
      /\ DOMAIN engine.order_books_ = SymbolsUpTo(backtest[1].ticks, Len(backtest[1].ticks))

\* two ticks of different symbols, two strategies, three orders, a trade
C24_Witness ==
    /\ backtest # <<>>
    /\ Len(backtest[1].ticks) = 2
    /\ backtest[1].ticks[1].symbol # backtest[1].ticks[2].symbol
    /\ backtest[1].strategies = 2
    /\ engine.stats_.ticks_processed = 2
    /\ engine.stats_.orders_submitted = 3
    /\ engine.stats_.trades_executed >= 1

\* position_ is inside (-max_position_, max_position_)
PositionInside(m) ==
    /\ 0 - m.max_position_ < m.position_
    /\ m.position_ < m.max_position_

\* the on_tick at p of ev is followed by a BUY and then a SELL submit_order
\* and no third one
QuotedBothSides(ev, p) ==
    /\ p + 2 \in DOMAIN ev
    /\ ev[p + 1].kind = "submit"
    /\ ev[p + 1].side = "BUY"
    /\ ev[p + 2].kind = "submit"
    /\ ev[p + 2].side = "SELL"
    /\ p + 3 \in DOMAIN ev => ev[p + 3].kind # "submit"

\* the on_tick at p of ev is followed by no submit_order
QuotedNothing(ev, p) == p + 1 \in DOMAIN ev => ev[p + 1].kind # "submit"

\* C25: with one MarketMakerStrategy registered and N ticks of one symbol
\* processed, while the position is inside (-max_position, max_position)
\* the strategy quotes both sides on every 10th tick and on no other, and
\* stats.orders_submitted is 2 * floor(N / 10).
C25_QuotesEveryTenth ==
    (mm # <<>> /\ PositionInside(mm[1])) =>
      /\ engine.stats_.orders_submitted
           = 2 * (engine.stats_.ticks_processed \div QuoteInterval)
      /\ \A p \in KindAt(log.events, "on_tick") :
           IF log.events[p].tick.timestamp % QuoteInterval = 0
           THEN QuotedBothSides(log.events, p)
           ELSE QuotedNothing(log.events, p)

\* twenty ticks, two quotes on both sides, and each ask traded with the
\* bid of its quote
C25_Witness ==
    /\ mm # <<>>
    /\ PositionInside(mm[1])
    /\ engine.stats_.ticks_processed = 2 * QuoteInterval
    /\ engine.stats_.orders_submitted = 4
    /\ mm[1].trades_count_ = 2

\* every order a level of map m holds is an open LIMIT order of the side,
\* priced at the level's price, mem being the memory the pointers refer to
HeldOrdersOpen(m, mem, side) ==
    \A k \in DOMAIN m :
       /\ m[k].price = k
       /\ \A i \in DOMAIN m[k].orders :
            /\ remaining(mem[m[k].orders[i]]) > 0
            /\ mem[m[k].orders[i]].status \in {"PENDING", "PARTIAL"}
            /\ mem[m[k].orders[i]].type = "LIMIT"
            /\ mem[m[k].orders[i]].price = k
            /\ mem[m[k].orders[i]].side = side

\* C31: in every book state reached with positive-quantity orders, every
\* order held in a price level has remaining() > 0, status PENDING or
\* PARTIAL, type LIMIT, the level's price and the side of the map holding
\* the level; no FILLED or CANCELLED order is referenced by a level.
C31_HeldOrdersOpen ==
    /\ HeldOrdersOpen(book.bids, orders, "BUY")
    /\ HeldOrdersOpen(book.asks, orders, "SELL")
    /\ \A p \in DOMAIN orders :
         orders[p].status \in {"FILLED", "CANCELLED"} => ~Referenced(book, p)

\* a FILLED order and a CANCELLED order exist and the book holds a PARTIAL
\* order
C31_Witness ==
    /\ \E p \in DOMAIN orders : orders[p].status = "FILLED"
    /\ \E p \in DOMAIN orders : orders[p].status = "CANCELLED"
    /\ \E p \in DOMAIN orders : orders[p].status = "PARTIAL" /\ Referenced(book, p)

\* the number of orders the levels of map m hold
RestingCount(m) ==
    Cardinality(UNION {{<<k, i>> : i \in DOMAIN m[k].orders} : k \in DOMAIN m})

\* the id of the resting order of trade t (the smaller id of the two), and
\* that order as the step leaves it
RestingId(t) == Min2(t.buy_order_id, t.sell_order_id)
RestingAfter(t) == orders'[RestingId(t)]

\* the i-th matching step of this add_order removed the head resting order
\* for good, or completed the incoming order, which only the last can do
StepProgress(ts, i) ==
    \/ /\ RestingAfter(ts[i]).status = "FILLED"
       /\ ~Referenced(book', RestingId(ts[i]))
    \/ /\ i = Len(ts)
       /\ Incoming.filled = Incoming.quantity

\* C32: add_order returns for every positive-quantity order: each pass of
\* the matching loop emits one trade and either completes the incoming
\* order or removes the head resting order, so one add_order emits at most
\* as many trades as the opposing side held orders, each of quantity > 0,
\* and no resting order is in two trades of one incoming order.
C32_BoundedMatching ==
    [][/\ Len(NewTrades) <= RestingCount(OppositeMap(book, Incoming.side))
       /\ total_trades(book') - total_trades(book) = Len(NewTrades)
       /\ \A i \in DOMAIN NewTrades :
            /\ NewTrades[i].quantity > 0
            /\ StepProgress(NewTrades, i)
            /\ \A j \in DOMAIN NewTrades :
                 i # j => RestingId(NewTrades[i]) # RestingId(NewTrades[j])]_vars

\* one incoming order traded with both orders that were resting, one trade
\* each, and is complete
C32_Witness ==
    /\ Len(orders) = 3
    /\ Len(trades) = 2
    /\ Taker(trades[1]).id = 3
    /\ Taker(trades[2]).id = 3
    /\ Maker(trades[1]).id # Maker(trades[2]).id
    /\ orders[3].filled = orders[3].quantity
    /\ orders[3].status = "FILLED"

====
